---- MODULE Spec2Model ----
(***************************************************************************)
(* Bech32 address codec of packages/shared/lib/core/utils/crypto.ts:       *)
(* the classes Bech32 and Bech32Helper.                                    *)
(*                                                                         *)
(* Strings are sequences of character codes (ASCII), so that toLowerCase,  *)
(* charCodeAt, lastIndexOf and CHARSET.indexOf are computed, not assumed.  *)
(* Positions inside strings are 0-based as in the source; the TLA+         *)
(* sequences holding them are 1-based.  Numbers are signed 32-bit where    *)
(* the source applies bitwise operators.                                   *)
(***************************************************************************)
EXTENDS Integers, Sequences, FiniteSets, TLC

(***************************************************************************)
(* Bounds of the model.                                                    *)
(***************************************************************************)
MaxHrpLen == 2
MaxDataLen == 2
MaxRawLen == 8
MaxSymbolsLen == 7
MaxValuesLen == 7

(***************************************************************************)
(* Signed 32-bit arithmetic of the JavaScript bitwise operators.  % and    *)
(* \div are floored, so a negative number is read in two's complement.     *)
(* The loops of the source are recursive functions f[i, state]: one        *)
(* application is one pass of the loop.                                    *)
(***************************************************************************)
\* 2^k, k in 0..30
PowersOfTwo ==
    << 1, 2, 4, 8, 16, 32, 64, 128, 256, 512, 1024, 2048, 4096, 8192, 16384,
       32768, 65536, 131072, 262144, 524288, 1048576, 2097152, 4194304,
       8388608, 16777216, 33554432, 67108864, 134217728, 268435456,
       536870912, 1073741824 >>

Pow2(k) == PowersOfTwo[k + 1]

\* a << k on int32: the bits above bit 31 are dropped, bit 31 is
\* the sign.
Shl(a, k) ==
    IF k = 0 THEN a
    ELSE LET low  == a % Pow2(31 - k)
             sign == (a \div Pow2(31 - k)) % 2
         IN  IF sign = 0 THEN low * Pow2(k)
             ELSE (low * Pow2(k) - 1073741824) - 1073741824

\* a >> k on int32: arithmetic shift.
Shr(a, k) == a \div Pow2(k)

\* x & y on two 5-bit digits: row x + 1, column y + 1
AndTable ==
    <<
       << 0, 0, 0, 0, 0, 0, 0, 0, 0, 0, 0, 0, 0, 0, 0, 0, 0, 0, 0, 0, 0, 0,
          0, 0, 0, 0, 0, 0, 0, 0, 0, 0 >>,
       << 0, 1, 0, 1, 0, 1, 0, 1, 0, 1, 0, 1, 0, 1, 0, 1, 0, 1, 0, 1, 0, 1,
          0, 1, 0, 1, 0, 1, 0, 1, 0, 1 >>,
       << 0, 0, 2, 2, 0, 0, 2, 2, 0, 0, 2, 2, 0, 0, 2, 2, 0, 0, 2, 2, 0, 0,
          2, 2, 0, 0, 2, 2, 0, 0, 2, 2 >>,
       << 0, 1, 2, 3, 0, 1, 2, 3, 0, 1, 2, 3, 0, 1, 2, 3, 0, 1, 2, 3, 0, 1,
          2, 3, 0, 1, 2, 3, 0, 1, 2, 3 >>,
       << 0, 0, 0, 0, 4, 4, 4, 4, 0, 0, 0, 0, 4, 4, 4, 4, 0, 0, 0, 0, 4, 4,
          4, 4, 0, 0, 0, 0, 4, 4, 4, 4 >>,
       << 0, 1, 0, 1, 4, 5, 4, 5, 0, 1, 0, 1, 4, 5, 4, 5, 0, 1, 0, 1, 4, 5,
          4, 5, 0, 1, 0, 1, 4, 5, 4, 5 >>,
       << 0, 0, 2, 2, 4, 4, 6, 6, 0, 0, 2, 2, 4, 4, 6, 6, 0, 0, 2, 2, 4, 4,
          6, 6, 0, 0, 2, 2, 4, 4, 6, 6 >>,
       << 0, 1, 2, 3, 4, 5, 6, 7, 0, 1, 2, 3, 4, 5, 6, 7, 0, 1, 2, 3, 4, 5,
          6, 7, 0, 1, 2, 3, 4, 5, 6, 7 >>,
       << 0, 0, 0, 0, 0, 0, 0, 0, 8, 8, 8, 8, 8, 8, 8, 8, 0, 0, 0, 0, 0, 0,
          0, 0, 8, 8, 8, 8, 8, 8, 8, 8 >>,
       << 0, 1, 0, 1, 0, 1, 0, 1, 8, 9, 8, 9, 8, 9, 8, 9, 0, 1, 0, 1, 0, 1,
          0, 1, 8, 9, 8, 9, 8, 9, 8, 9 >>,
       << 0, 0, 2, 2, 0, 0, 2, 2, 8, 8, 10, 10, 8, 8, 10, 10, 0, 0, 2, 2, 0,
          0, 2, 2, 8, 8, 10, 10, 8, 8, 10, 10 >>,
       << 0, 1, 2, 3, 0, 1, 2, 3, 8, 9, 10, 11, 8, 9, 10, 11, 0, 1, 2, 3, 0,
          1, 2, 3, 8, 9, 10, 11, 8, 9, 10, 11 >>,
       << 0, 0, 0, 0, 4, 4, 4, 4, 8, 8, 8, 8, 12, 12, 12, 12, 0, 0, 0, 0, 4,
          4, 4, 4, 8, 8, 8, 8, 12, 12, 12, 12 >>,
       << 0, 1, 0, 1, 4, 5, 4, 5, 8, 9, 8, 9, 12, 13, 12, 13, 0, 1, 0, 1, 4,
          5, 4, 5, 8, 9, 8, 9, 12, 13, 12, 13 >>,
       << 0, 0, 2, 2, 4, 4, 6, 6, 8, 8, 10, 10, 12, 12, 14, 14, 0, 0, 2, 2,
          4, 4, 6, 6, 8, 8, 10, 10, 12, 12, 14, 14 >>,
       << 0, 1, 2, 3, 4, 5, 6, 7, 8, 9, 10, 11, 12, 13, 14, 15, 0, 1, 2, 3,
          4, 5, 6, 7, 8, 9, 10, 11, 12, 13, 14, 15 >>,
       << 0, 0, 0, 0, 0, 0, 0, 0, 0, 0, 0, 0, 0, 0, 0, 0, 16, 16, 16, 16,
          16, 16, 16, 16, 16, 16, 16, 16, 16, 16, 16, 16 >>,
       << 0, 1, 0, 1, 0, 1, 0, 1, 0, 1, 0, 1, 0, 1, 0, 1, 16, 17, 16, 17,
          16, 17, 16, 17, 16, 17, 16, 17, 16, 17, 16, 17 >>,
       << 0, 0, 2, 2, 0, 0, 2, 2, 0, 0, 2, 2, 0, 0, 2, 2, 16, 16, 18, 18,
          16, 16, 18, 18, 16, 16, 18, 18, 16, 16, 18, 18 >>,
       << 0, 1, 2, 3, 0, 1, 2, 3, 0, 1, 2, 3, 0, 1, 2, 3, 16, 17, 18, 19,
          16, 17, 18, 19, 16, 17, 18, 19, 16, 17, 18, 19 >>,
       << 0, 0, 0, 0, 4, 4, 4, 4, 0, 0, 0, 0, 4, 4, 4, 4, 16, 16, 16, 16,
          20, 20, 20, 20, 16, 16, 16, 16, 20, 20, 20, 20 >>,
       << 0, 1, 0, 1, 4, 5, 4, 5, 0, 1, 0, 1, 4, 5, 4, 5, 16, 17, 16, 17,
          20, 21, 20, 21, 16, 17, 16, 17, 20, 21, 20, 21 >>,
       << 0, 0, 2, 2, 4, 4, 6, 6, 0, 0, 2, 2, 4, 4, 6, 6, 16, 16, 18, 18,
          20, 20, 22, 22, 16, 16, 18, 18, 20, 20, 22, 22 >>,
       << 0, 1, 2, 3, 4, 5, 6, 7, 0, 1, 2, 3, 4, 5, 6, 7, 16, 17, 18, 19,
          20, 21, 22, 23, 16, 17, 18, 19, 20, 21, 22, 23 >>,
       << 0, 0, 0, 0, 0, 0, 0, 0, 8, 8, 8, 8, 8, 8, 8, 8, 16, 16, 16, 16,
          16, 16, 16, 16, 24, 24, 24, 24, 24, 24, 24, 24 >>,
       << 0, 1, 0, 1, 0, 1, 0, 1, 8, 9, 8, 9, 8, 9, 8, 9, 16, 17, 16, 17,
          16, 17, 16, 17, 24, 25, 24, 25, 24, 25, 24, 25 >>,
       << 0, 0, 2, 2, 0, 0, 2, 2, 8, 8, 10, 10, 8, 8, 10, 10, 16, 16, 18,
          18, 16, 16, 18, 18, 24, 24, 26, 26, 24, 24, 26, 26 >>,
       << 0, 1, 2, 3, 0, 1, 2, 3, 8, 9, 10, 11, 8, 9, 10, 11, 16, 17, 18,
          19, 16, 17, 18, 19, 24, 25, 26, 27, 24, 25, 26, 27 >>,
       << 0, 0, 0, 0, 4, 4, 4, 4, 8, 8, 8, 8, 12, 12, 12, 12, 16, 16, 16,
          16, 20, 20, 20, 20, 24, 24, 24, 24, 28, 28, 28, 28 >>,
       << 0, 1, 0, 1, 4, 5, 4, 5, 8, 9, 8, 9, 12, 13, 12, 13, 16, 17, 16,
          17, 20, 21, 20, 21, 24, 25, 24, 25, 28, 29, 28, 29 >>,
       << 0, 0, 2, 2, 4, 4, 6, 6, 8, 8, 10, 10, 12, 12, 14, 14, 16, 16, 18,
          18, 20, 20, 22, 22, 24, 24, 26, 26, 28, 28, 30, 30 >>,
       << 0, 1, 2, 3, 4, 5, 6, 7, 8, 9, 10, 11, 12, 13, 14, 15, 16, 17, 18,
          19, 20, 21, 22, 23, 24, 25, 26, 27, 28, 29, 30, 31 >>
    >>

And5(x, y) == AndTable[x + 1][y + 1]

\* x | y and x ^ y on two 5-bit digits
Or5(x, y) == x + y - And5(x, y)

Xor5(x, y) == x + y - 2 * And5(x, y)

\* a & b, a | b, a ^ b for an int32 a and a non-negative b, five bits at a
\* time.
RECURSIVE BitAnd(_, _)
BitAnd(a, b) ==
    IF b = 0 THEN 0
    ELSE And5(a % 32, b % 32) + 32 * BitAnd(a \div 32, b \div 32)

RECURSIVE BitOr(_, _)
BitOr(a, b) ==
    IF b = 0 THEN a
    ELSE Or5(a % 32, b % 32) + 32 * BitOr(a \div 32, b \div 32)

RECURSIVE BitXor(_, _)
BitXor(a, b) ==
    IF b = 0 THEN a
    ELSE Xor5(a % 32, b % 32) + 32 * BitXor(a \div 32, b \div 32)

(***************************************************************************)
(* String primitives used by the codec.                                    *)
(***************************************************************************)
charAt(str, pos) == str[pos + 1]

\* toLowerCase leaving the string as it is
toLowerCaseUnchanged(str) == str

\* String.prototype.toLowerCase on ASCII: 'A'..'Z' become 'a'..'z'.
toLowerCase(str) ==
    LET loop[pos \in 0..Len(str), acc \in Seq(Int)] ==
            IF pos < Len(str)
            THEN loop[pos + 1,
                      Append(acc, IF charAt(str, pos) \in 65..90
                                  THEN charAt(str, pos) + 32
                                  ELSE charAt(str, pos))]
            ELSE acc
    IN  loop[0, << >>]

\* the search for ch from the left: the first occurrence, -1 when none
firstIndexOf(str, ch) ==
    IF \E n \in 1..Len(str) : str[n] = ch
    THEN (CHOOSE n \in 1..Len(str) :
              str[n] = ch /\ \A m \in 1..(n - 1) : str[m] # ch) - 1
    ELSE -1

\* 0-based index of the last occurrence of ch in str, -1 when there is none.
lastIndexOf(str, ch) ==
    IF \E n \in 1..Len(str) : str[n] = ch
    THEN (CHOOSE n \in 1..Len(str) :
              str[n] = ch /\ \A m \in (n + 1)..Len(str) : str[m] # ch) - 1
    ELSE -1

\* 0-based index of the first occurrence of ch in str, -1 when there is none.
indexOf(str, ch) ==
    IF \E n \in 1..Len(str) : str[n] = ch
    THEN (CHOOSE n \in 1..Len(str) :
              str[n] = ch /\ \A m \in 1..(n - 1) : str[m] # ch) - 1
    ELSE -1

slice(str, from, to) == SubSeq(str, from + 1, to)

(***************************************************************************)
(* Constants of class Bech32.                                              *)
(***************************************************************************)
\* 'qpzry9x8gf2tvdw0s3jn54khce6mua7l'
CHARSET ==
    << 113, 112, 122, 114, 121, 57, 120, 56, 103, 102, 50, 116, 118, 100,
       119, 48, 115, 51, 106, 110, 53, 52, 107, 104, 99, 101, 54, 109, 117,
       97, 55, 108 >>

\* '1'
SEPARATOR == 49

\* 0x3b6a57b2, 0x26508e6d, 0x1ea119fa, 0x3d4233dd, 0x2a1462b3
GENERATOR == << 996825010, 642813549, 513874426, 1027748829, 705979059 >>

(***************************************************************************)
(* Bech32.convertBits                                                      *)
(***************************************************************************)
\* while (bits >= toBits) { bits -= toBits; res.push((value >> bits) & maxV) }
convertBitsDrain(value, bits0, res0, toBits) ==
    LET maxV == Shl(1, toBits) - 1
        loop[bits \in Nat, res \in Seq(Int)] ==
            IF bits >= toBits
            THEN loop[bits - toBits,
                      Append(res, BitAnd(Shr(value, bits - toBits), maxV))]
            ELSE [bits |-> bits, res |-> res]
    IN  loop[bits0, res0]

\* for (i = 0; i < data.length; i++) { value = (value << fromBits) | data[i];
\* bits += fromBits; <the while loop> }
convertBitsLoop(data, fromBits, toBits) ==
    LET loop[i \in 0..Len(data), value \in Int, bits \in Nat, res \in Seq(Int)] ==
            IF i < Len(data)
            THEN LET v == BitOr(Shl(value, fromBits), data[i + 1])
                     d == convertBitsDrain(v, bits + fromBits, res, toBits)
                 IN  loop[i + 1, v, d.bits, d.res]
            ELSE [value |-> value, bits |-> bits, res |-> res]
    IN  loop[0, 0, 0, << >>]

\* convertBits without the final partial unit of the padding branch
convertBitsNoFinalUnit(data, fromBits, toBits, padding) ==
    LET maxV == Shl(1, toBits) - 1
        l    == convertBitsLoop(data, fromBits, toBits)
    IN  IF padding
        THEN [err |-> "", res |-> l.res]
        ELSE IF l.bits >= fromBits
             THEN [err |-> "Excess padding", res |-> << >>]
             ELSE IF BitAnd(Shl(l.value, toBits - l.bits), maxV) # 0
                  THEN [err |-> "Non-zero padding", res |-> << >>]
                  ELSE [err |-> "", res |-> l.res]

\* convertBits without the test of the left-over bits when padding is false
convertBitsAnyPadding(data, fromBits, toBits, padding) ==
    LET maxV == Shl(1, toBits) - 1
        l    == convertBitsLoop(data, fromBits, toBits)
    IN  IF padding
        THEN [err |-> "",
              res |-> IF l.bits > 0
                      THEN Append(l.res, BitAnd(Shl(l.value, toBits - l.bits), maxV))
                      ELSE l.res]
        ELSE IF l.bits >= fromBits
             THEN [err |-> "Excess padding", res |-> << >>]
             ELSE [err |-> "", res |-> l.res]

convertBits(data, fromBits, toBits, padding) ==
    LET maxV == Shl(1, toBits) - 1
        l    == convertBitsLoop(data, fromBits, toBits)
    IN  IF padding
        THEN [err |-> "",
              res |-> IF l.bits > 0
                      THEN Append(l.res, BitAnd(Shl(l.value, toBits - l.bits), maxV))
                      ELSE l.res]
        ELSE IF l.bits >= fromBits
             THEN [err |-> "Excess padding", res |-> << >>]
             ELSE IF BitAnd(Shl(l.value, toBits - l.bits), maxV) # 0
                  THEN [err |-> "Non-zero padding", res |-> << >>]
                  ELSE [err |-> "", res |-> l.res]

\* to5Bit with the residual bits left unshifted in the last symbol
to5BitResidueUnshifted(bytes) ==
    LET l == convertBitsLoop(bytes, 8, 5)
    IN  IF l.bits > 0 THEN Append(l.res, BitAnd(l.value, 31)) ELSE l.res

to5Bit(bytes) == convertBits(bytes, 8, 5, TRUE).res

\* from5Bit converting with padding, as the encode direction does
from5BitPadded(fiveBit) == convertBits(fiveBit, 5, 8, TRUE)

from5Bit(fiveBit) == convertBits(fiveBit, 5, 8, FALSE)

(***************************************************************************)
(* Checksum: humanReadablePartExpand, polymod, createChecksum,             *)
(* verifyChecksum.                                                         *)
(***************************************************************************)
\* humanReadablePartExpand without the low five bits of the characters
humanReadablePartExpandHighOnly(humanReadablePart) ==
    LET high[i \in 0..Len(humanReadablePart), ret \in Seq(Int)] ==
            IF i < Len(humanReadablePart)
            THEN high[i + 1, Append(ret, Shr(charAt(humanReadablePart, i), 5))]
            ELSE ret
    IN  Append(high[0, << >>], 0)

humanReadablePartExpand(humanReadablePart) ==
    LET high[i \in 0..Len(humanReadablePart), ret \in Seq(Int)] ==
            IF i < Len(humanReadablePart)
            THEN high[i + 1, Append(ret, Shr(charAt(humanReadablePart, i), 5))]
            ELSE ret
        low[i \in 0..Len(humanReadablePart), ret \in Seq(Int)] ==
            IF i < Len(humanReadablePart)
            THEN low[i + 1, Append(ret, BitAnd(charAt(humanReadablePart, i), 31))]
            ELSE ret
    IN  low[0, Append(high[0, << >>], 0)]

\* the pass of the loop keeping 26 bits of chk (0x3ffffff) before the shift
polymodStepWideMask(chk0, v) ==
    LET top == Shr(chk0, 25)
        gen[i \in 0..5, chk \in Int] ==
            IF i < 5
            THEN gen[i + 1, IF BitAnd(Shr(top, i), 1) # 0
                            THEN BitXor(chk, GENERATOR[i + 1])
                            ELSE chk]
            ELSE chk
    IN  gen[0, BitXor(Shl(BitAnd(chk0, 67108863), 5), v)]

\* one pass of the loop over values: top, the shift, and the loop over the
\* five generator constants
polymodStep(chk0, v) ==
    LET top == Shr(chk0, 25)
        gen[i \in 0..5, chk \in Int] ==
            IF i < 5
            THEN gen[i + 1, IF BitAnd(Shr(top, i), 1) # 0
                            THEN BitXor(chk, GENERATOR[i + 1])
                            ELSE chk]
            ELSE chk
    IN  gen[0, BitXor(Shl(BitAnd(chk0, 33554431), 5), v)]

polymod(values) ==
    LET loop[p \in 0..Len(values), chk \in Int] ==
            IF p < Len(values)
            THEN loop[p + 1, polymodStep(chk, values[p + 1])]
            ELSE chk
    IN  loop[0, 1]

createChecksum(humanReadablePart, data) ==
    LET values == humanReadablePartExpand(humanReadablePart) \o data
                  \o << 0, 0, 0, 0, 0, 0 >>
        mod    == BitXor(polymod(values), 1)
        loop[i \in 0..6, ret \in Seq(Int)] ==
            IF i < 6
            THEN loop[i + 1, Append(ret, BitAnd(Shr(mod, 5 * (5 - i)), 31))]
            ELSE ret
    IN  loop[0, << >>]

verifyChecksum(humanReadablePart, data) ==
    polymod(humanReadablePartExpand(humanReadablePart) \o data) = 1

(***************************************************************************)
(* Bech32.encode, Bech32.encode5BitArray                                   *)
(***************************************************************************)
\* for (i = 0; i < symbols.length; i++) ret += CHARSET.charAt(symbols[i])
appendSymbols(ret0, symbols) ==
    LET loop[i \in 0..Len(symbols), ret \in Seq(Int)] ==
            IF i < Len(symbols)
            THEN loop[i + 1, Append(ret, charAt(CHARSET, symbols[i + 1]))]
            ELSE ret
    IN  loop[0, ret0]

encode5BitArray(humanReadablePart, data5Bit) ==
    LET checksum == createChecksum(humanReadablePart, data5Bit)
    IN  appendSymbols(
            appendSymbols(Append(humanReadablePart, SEPARATOR), data5Bit),
            checksum)

encode(humanReadablePart, data) ==
    encode5BitArray(humanReadablePart, to5Bit(data))

(***************************************************************************)
(* Bech32.decodeTo5BitArray, Bech32.decode.  An outcome is a record:       *)
(* kind "ok" (a result), "undefined" (the soft failure) or "throw" (err    *)
(* names the Error), and from5Bit tells whether the 5 -> 8 conversion ran. *)
(***************************************************************************)
Thrown(e, ran) ==
    [kind |-> "throw", err |-> e, humanReadablePart |-> << >>, data |-> << >>,
     from5Bit |-> ran]

Undefined ==
    [kind |-> "undefined", err |-> "", humanReadablePart |-> << >>,
     data |-> << >>, from5Bit |-> FALSE]

Ok(h, d, ran) ==
    [kind |-> "ok", err |-> "", humanReadablePart |-> h, data |-> d,
     from5Bit |-> ran]

\* the loop mapping the characters after the separator through CHARSET:
\* the symbols, or bad = TRUE at the first character not in the alphabet.
decodeSymbols(bech, separatorPos) ==
    LET loop[i \in 0..Len(bech), symbols \in Seq(Int)] ==
            IF i < Len(bech)
            THEN LET d == indexOf(CHARSET, charAt(bech, i))
                 IN  IF d = -1
                     THEN [bad |-> TRUE, symbols |-> symbols]
                     ELSE loop[i + 1, Append(symbols, d)]
            ELSE [bad |-> FALSE, symbols |-> symbols]
    IN  loop[separatorPos + 1, << >>]

\* decodeTo5BitArray throwing on a checksum mismatch, like the structural
\* errors
decodeTo5BitArrayThrowing(input) ==
    LET bech         == toLowerCase(input)
        separatorPos == lastIndexOf(bech, SEPARATOR)
    IN  IF separatorPos = -1 THEN Thrown("no separator", FALSE)
        ELSE IF separatorPos < 1 THEN Thrown("separator too early", FALSE)
        ELSE IF separatorPos + 7 > Len(bech) THEN Thrown("not enough space", FALSE)
        ELSE LET m == decodeSymbols(bech, separatorPos)
             IN  IF m.bad THEN Thrown("not in charset", FALSE)
                 ELSE LET humanReadablePart == slice(bech, 0, separatorPos)
                      IN  IF ~verifyChecksum(humanReadablePart, m.symbols)
                          THEN Thrown("checksum", FALSE)
                          ELSE Ok(humanReadablePart,
                                  slice(m.symbols, 0, Len(m.symbols) - 6), FALSE)

\* decodeTo5BitArray testing the room left for data before the position of
\* the separator
decodeTo5BitArrayLengthFirst(input) ==
    LET bech         == toLowerCase(input)
        separatorPos == lastIndexOf(bech, SEPARATOR)
    IN  IF separatorPos + 7 > Len(bech) THEN Thrown("not enough space", FALSE)
        ELSE IF separatorPos = -1 THEN Thrown("no separator", FALSE)
        ELSE IF separatorPos < 1 THEN Thrown("separator too early", FALSE)
        ELSE LET m == decodeSymbols(bech, separatorPos)
             IN  IF m.bad THEN Thrown("not in charset", FALSE)
                 ELSE LET humanReadablePart == slice(bech, 0, separatorPos)
                      IN  IF ~verifyChecksum(humanReadablePart, m.symbols)
                          THEN Undefined
                          ELSE Ok(humanReadablePart,
                                  slice(m.symbols, 0, Len(m.symbols) - 6), FALSE)

decodeTo5BitArray(input) ==
    LET bech         == toLowerCase(input)
        separatorPos == lastIndexOf(bech, SEPARATOR)
    IN  IF separatorPos = -1 THEN Thrown("no separator", FALSE)
        ELSE IF separatorPos < 1 THEN Thrown("separator too early", FALSE)
        ELSE IF separatorPos + 7 > Len(bech) THEN Thrown("not enough space", FALSE)
        ELSE LET m == decodeSymbols(bech, separatorPos)
             IN  IF m.bad THEN Thrown("not in charset", FALSE)
                 ELSE LET humanReadablePart == slice(bech, 0, separatorPos)
                      IN  IF ~verifyChecksum(humanReadablePart, m.symbols)
                          THEN Undefined
                          ELSE Ok(humanReadablePart,
                                  slice(m.symbols, 0, Len(m.symbols) - 6), FALSE)

decode(bech) ==
    LET result == decodeTo5BitArray(bech)
    IN  IF result.kind = "ok"
        THEN LET c == from5Bit(result.data)
             IN  IF c.err # "" THEN Thrown(c.err, TRUE)
                 ELSE Ok(result.humanReadablePart, c.res, TRUE)
        ELSE result

(***************************************************************************)
(* Bech32.matches: new RegExp(`^${humanReadablePart}1[${CHARSET}]{6,}$`)   *)
(* on a prefix of letters and digits, which the pattern takes literally:   *)
(* the prefix, the separator, then six or more alphabet characters up to   *)
(* the end of the text.                                                    *)
(***************************************************************************)
\* matches asking for seven or more characters after the separator
matchesSevenOrMore(humanReadablePart, bech32Text) ==
    IF Len(bech32Text) = 0 THEN FALSE
    ELSE /\ Len(bech32Text) >= Len(humanReadablePart) + 1 + 7
         /\ SubSeq(bech32Text, 1, Len(humanReadablePart)) = humanReadablePart
         /\ bech32Text[Len(humanReadablePart) + 1] = SEPARATOR
         /\ \A n \in (Len(humanReadablePart) + 2)..Len(bech32Text) :
                \E k \in 1..32 : CHARSET[k] = bech32Text[n]

matches(humanReadablePart, bech32Text) ==
    IF Len(bech32Text) = 0 THEN FALSE
    ELSE /\ Len(bech32Text) >= Len(humanReadablePart) + 1 + 6
         /\ slice(bech32Text, 0, Len(humanReadablePart)) = humanReadablePart
         /\ charAt(bech32Text, Len(humanReadablePart)) = SEPARATOR
         /\ \A n \in (Len(humanReadablePart) + 1)..(Len(bech32Text) - 1) :
                indexOf(CHARSET, charAt(bech32Text, n)) # -1

(***************************************************************************)
(* Bech32Helper.toBech32, Bech32Helper.fromBech32                          *)
(***************************************************************************)
\* toBech32 writing the address type after the address bytes
toBech32TypeLast(addressType, addressBytes, humanReadablePart) ==
    encode(humanReadablePart, addressBytes \o << addressType % 256 >>)

\* addressData[0] = addressType stores the number modulo 256 (Uint8Array).
toBech32(addressType, addressBytes, humanReadablePart) ==
    encode(humanReadablePart, << addressType % 256 >> \o addressBytes)

AddressThrown(e) ==
    [kind |-> "throw", err |-> e, addressType |-> 0, addressBytes |-> << >>]

AddressUndefined ==
    [kind |-> "undefined", err |-> "", addressType |-> 0, addressBytes |-> << >>]

\* Outcomes of fromBech32: a thrown Error, undefined, or a result.
AddressOk(t, a) ==
    [kind |-> "ok", err |-> "", addressType |-> t, addressBytes |-> a]

\* fromBech32 testing the length of the payload before the prefix
fromBech32LengthFirst(bech32Text, humanReadablePart) ==
    LET decoded == decode(bech32Text)
    IN  IF decoded.kind = "throw" THEN AddressThrown(decoded.err)
        ELSE IF decoded.kind = "ok"
        THEN IF Len(decoded.data) = 0
             THEN AddressThrown("data length 0")
             ELSE IF decoded.humanReadablePart # humanReadablePart
                  THEN AddressThrown("hrp mismatch")
                  ELSE AddressOk(decoded.data[1],
                                 slice(decoded.data, 1, Len(decoded.data)))
        ELSE AddressUndefined

fromBech32(bech32Text, humanReadablePart) ==
    LET decoded == decode(bech32Text)
    IN  IF decoded.kind = "throw" THEN AddressThrown(decoded.err)
        ELSE IF decoded.kind = "ok"
        THEN IF decoded.humanReadablePart # humanReadablePart
             THEN AddressThrown("hrp mismatch")
             ELSE IF Len(decoded.data) = 0
                  THEN AddressThrown("data length 0")
                  ELSE AddressOk(decoded.data[1],
                                 slice(decoded.data, 1, Len(decoded.data)))
        ELSE AddressUndefined

(***************************************************************************)
(* The inputs of the model.                                                *)
(***************************************************************************)
RECURSIVE SeqsUpTo(_, _)
SeqsUpTo(S, n) ==
    IF n = 0 THEN {<< >>}
    ELSE LET shorter == SeqsUpTo(S, n - 1)
         IN  shorter \cup {Append(q, x) : q \in {r \in shorter : Len(r) = n - 1}, x \in S}

\* characters of a prefix: 'a', 'z', '1'
HrpChars == {97, 122, 49}
Hrps == SeqsUpTo(HrpChars, MaxHrpLen) \ {<< >>}

\* bytes of a payload
ByteVals == {0, 255}
Payloads == SeqsUpTo(ByteVals, MaxDataLen)

\* address type tags
AddressTypes == {0, 255}

\* characters a typo puts in place of one character of an encoded string:
\* 'q' (alphabet), 'b' (a letter outside it), '1', 'A' (upper case)
TypoChars == {113, 98, 49, 65}

\* characters of a text typed from scratch: '1', 'Q', 'b'
RawChars == {49, 81, 98}

\* 5-bit symbols handed to encode5BitArray: no bit, the lowest bit, the
\* highest bit
SymbolVals == {0, 1, 16}
SymbolSeqs == SeqsUpTo(SymbolVals, MaxSymbolsLen)

\* prefixes used with encode5BitArray
ShortHrps == {h \in Hrps : Len(h) = 1}

\* values handed to polymod, one per iteration
PolymodVals == {0, 31, 255}

\* the prefix of another network
OtherHrp == << 122 >>

isLetter(ch) == ch \in 65..90 \/ ch \in 97..122

\* ch with the other letter case
otherCase(ch) ==
    IF ch \in 97..122 THEN ch - 32
    ELSE IF ch \in 65..90 THEN ch + 32
    ELSE ch

\* the sets of positions (0-based) whose case a writer changes: one
\* position, a leading part, a trailing part
CaseMasks(n) ==
    {{k} : k \in 0..(n - 1)}
    \cup {0..k : k \in 0..(n - 1)}
    \cup {k..(n - 1) : k \in 0..(n - 1)}

withCase(str, mask) ==
    [n \in 1..Len(str) |-> IF (n - 1) \in mask THEN otherCase(str[n]) ELSE str[n]]

(***************************************************************************)
(* State: the arguments of the last encoding call (hrp, data,              *)
(* addressType), the text at hand and how it was made, the typo made in    *)
(* it (pos, chr), and the last call made on the text with its argument and *)
(* outcome.                                                                *)
(***************************************************************************)
VARIABLES hrp, data, addressType, text, made, pos, chr, call, arg, res,
          values, p, chk

\* the run of polymod: the values consumed so far, the loop index, the
\* accumulator
polymodVars == << values, p, chk >>

vars == << hrp, data, addressType, text, made, pos, chr, call, arg, res,
           values, p, chk >>

NoResult == [kind |-> "none"]

Init ==
    /\ hrp = << >>
    /\ data = << >>
    /\ addressType = 0
    /\ text = << >>
    /\ made = "none"
    /\ pos = 0
    /\ chr = 0
    /\ call = "none"
    /\ arg = << >>
    /\ res = NoResult
    /\ values = << >>
    /\ p = 0
    /\ chk = 1

\* text = Bech32.encode(h, b)
Encode ==
    /\ made = "none" /\ call = "none"
    /\ \E h \in Hrps, b \in Payloads :
        /\ hrp' = h
        /\ data' = b
        /\ text' = encode(h, b)
    /\ made' = "encode"
    /\ UNCHANGED << addressType, pos, chr, call, arg, res >>
    /\ UNCHANGED polymodVars

\* text = Bech32Helper.toBech32(t, a, h)
ToBech32 ==
    /\ made = "none" /\ call = "none"
    /\ \E t \in AddressTypes, a \in Payloads, h \in Hrps :
        /\ hrp' = h
        /\ data' = a
        /\ addressType' = t
        /\ text' = toBech32(t, a, h)
    /\ made' = "toBech32"
    /\ UNCHANGED << pos, chr, call, arg, res >>
    /\ UNCHANGED polymodVars

\* a typo: the character at position i of an encoded string becomes c
Substitute ==
    /\ made = "encode" /\ call = "none"
    /\ \E i \in 0..(Len(text) - 1), c \in TypoChars :
        /\ charAt(text, i) # c
        /\ text' = [text EXCEPT ![i + 1] = c]
        /\ pos' = i
        /\ chr' = c
    /\ made' = "substitute"
    /\ UNCHANGED << hrp, data, addressType, call, arg, res >>
    /\ UNCHANGED polymodVars

\* the letters at the positions of a mask change case
ChangeCase ==
    /\ made = "encode" /\ call = "none"
    /\ \E mask \in CaseMasks(Len(text)) : text' = withCase(text, mask)
    /\ made' = "changeCase"
    /\ UNCHANGED << hrp, data, addressType, pos, chr, call, arg, res >>
    /\ UNCHANGED polymodVars

\* a text typed from scratch, one character at a time
Type ==
    /\ made \in {"none", "type"} /\ call = "none"
    /\ Len(text) < MaxRawLen
    /\ \E c \in RawChars : text' = Append(text, c)
    /\ made' = "type"
    /\ UNCHANGED << hrp, data, addressType, pos, chr, call, arg, res >>
    /\ UNCHANGED polymodVars

\* res = Bech32.decode(text)
Decode ==
    /\ call = "none"
    /\ res' = decode(text)
    /\ call' = "decode"
    /\ UNCHANGED << hrp, data, addressType, text, made, pos, chr, arg >>
    /\ UNCHANGED polymodVars

\* res = Bech32Helper.fromBech32(text, e), e the prefix the text was made
\* with or another one
FromBech32 ==
    /\ call = "none"
    /\ made \in {"encode", "toBech32", "substitute"}
    /\ \E e \in {hrp, OtherHrp} :
        /\ res' = fromBech32(text, e)
        /\ arg' = e
    /\ call' = "fromBech32"
    /\ UNCHANGED << hrp, data, addressType, text, made, pos, chr >>
    /\ UNCHANGED polymodVars

\* res = Bech32.matches(h, text), h the prefix the text was made with or
\* another one
Matches ==
    /\ call = "none"
    /\ made = "encode"
    /\ \E h \in {hrp, OtherHrp} :
        /\ res' = [kind |-> "bool", value |-> matches(h, text)]
        /\ arg' = h
    /\ call' = "matches"
    /\ UNCHANGED << hrp, data, addressType, text, made, pos, chr >>
    /\ UNCHANGED polymodVars

\* text = Bech32.encode5BitArray(h, d); data holds the symbols d
Encode5BitArray ==
    /\ made = "none" /\ call = "none"
    /\ \E h \in ShortHrps, d \in SymbolSeqs :
        /\ hrp' = h
        /\ data' = d
        /\ text' = encode5BitArray(h, d)
    /\ made' = "encode5BitArray"
    /\ UNCHANGED << addressType, pos, chr, call, arg, res >>
    /\ UNCHANGED polymodVars

\* one iteration of the loop of Bech32.polymod on the next value
PolymodIteration ==
    /\ made \in {"none", "polymod"} /\ call = "none"
    /\ p < MaxValuesLen
    /\ \E v \in PolymodVals :
        /\ values' = Append(values, v)
        /\ chk' = polymodStep(chk, v)
    /\ p' = p + 1
    /\ made' = "polymod"
    /\ UNCHANGED << hrp, data, addressType, text, pos, chr, call, arg, res >>

Next ==
    \/ Encode
    \/ ToBech32
    \/ Substitute
    \/ ChangeCase
    \/ Type
    \/ Decode
    \/ FromBech32
    \/ Matches
    \/ Encode5BitArray
    \/ PolymodIteration

Spec == Init /\ [][Next]_vars

(***************************************************************************)
(* Vocabulary of the properties.                                           *)
(***************************************************************************)
\* a string of lowercase letters a-z
LowercaseLetters(str) == \A n \in 1..Len(str) : str[n] \in 97..122

\* the lower-case form of one character
lowerOf(ch) == IF ch \in 65..90 THEN ch + 32 ELSE ch

\* the characters of the alphabet
Alphabet == {CHARSET[n] : n \in 1..32}

\* the 0-based positions of '1' in the lower-cased str
SeparatorPositions(str) == {n \in 0..(Len(str) - 1) : lowerOf(str[n + 1]) = 49}

LastSeparator(str) ==
    CHOOSE n \in SeparatorPositions(str) : \A m \in SeparatorPositions(str) : m <= n

\* str passes the structural checks of decode: a separator exists, its last
\* occurrence is at index >= 1, at least 6 characters follow it, and each of
\* them is in the alphabet
PassesStructure(str) ==
    /\ SeparatorPositions(str) # {}
    /\ LastSeparator(str) >= 1
    /\ Len(str) - LastSeparator(str) - 1 >= 6
    /\ \A n \in (LastSeparator(str) + 1)..(Len(str) - 1) :
           lowerOf(str[n + 1]) \in Alphabet

\* the checksum of a structurally sound str verifies: polymod of the
\* expanded prefix and the symbols is 1
ChecksumVerifies(str) ==
    LET sep     == LastSeparator(str)
        prefix  == [n \in 1..sep |-> lowerOf(str[n])]
        symbols == [n \in 1..(Len(str) - sep - 1) |->
                        indexOf(CHARSET, lowerOf(str[sep + 1 + n]))]
    IN  polymod(humanReadablePartExpand(prefix) \o symbols) = 1

(***************************************************************************)
(* C1  Round trip: for a prefix of lowercase letters and any payload,      *)
(* decoding the encoded string throws nothing, is not undefined, and       *)
(* returns exactly the prefix and the payload.                             *)
(***************************************************************************)
C1_RoundTrip ==
    (made = "encode" /\ call = "decode" /\ LowercaseLetters(hrp))
        => /\ res.kind = "ok"
           /\ res.humanReadablePart = hrp
           /\ res.data = data

C1_Witness ==
    /\ made = "encode" /\ call = "decode" /\ LowercaseLetters(hrp)
    /\ Len(hrp) = 2 /\ data = << 255, 0 >>
    /\ res.kind = "ok" /\ res.data = << 255, 0 >>

(***************************************************************************)
(* C2  A checksum mismatch is a soft failure: a text that passes every     *)
(* structural check of decode and whose checksum does not verify is        *)
(* answered with undefined, nothing is thrown, and the 5 -> 8 bit          *)
(* conversion is not run on it.                                            *)
(***************************************************************************)
C2_ChecksumMismatchIsSoft ==
    (call = "decode" /\ PassesStructure(text) /\ ~ChecksumVerifies(text))
        => /\ res.kind = "undefined"
           /\ ~res.from5Bit

C2_Witness ==
    /\ call = "decode" /\ made = "type"
    /\ PassesStructure(text) /\ ~ChecksumVerifies(text)
    /\ res.kind = "undefined" /\ ~res.from5Bit

(***************************************************************************)
(* C3  Checksum sensitivity.  As claimed: replacing one character of a     *)
(* valid encoded string (prefix of lowercase letters) by any character     *)
(* that differs from it by more than letter case makes decode return       *)
(* undefined, never a thrown error.                                        *)
(***************************************************************************)
\* the typo changed more than the letter case
TypoNotCaseOnly == lowerOf(chr) # lowerOf(encode(hrp, data)[pos + 1])

C3_AnySubstitutionIsSoft ==
    (made = "substitute" /\ call = "decode" /\ LowercaseLetters(hrp)
     /\ TypoNotCaseOnly)
        => res.kind = "undefined"

(***************************************************************************)
(* C3 as amended: after such a replacement decode returns undefined when   *)
(* the position is in the prefix, and when it is after the separator and   *)
(* the new character is, up to case, a character of the alphabet (the last *)
(* character included).  It throws the invalid-character error when a      *)
(* character after the separator is replaced by one outside the alphabet   *)
(* other than '1', and the missing-separator error when the separator of a *)
(* string with a prefix of letters is replaced.  In none of these cases    *)
(* does it return a result.                                                *)
(***************************************************************************)
C3_SubstitutionOutcome ==
    (made = "substitute" /\ call = "decode" /\ TypoNotCaseOnly)
        => /\ pos < Len(hrp) => res.kind = "undefined"
           /\ (pos > Len(hrp) /\ lowerOf(chr) \in Alphabet)
                  => res.kind = "undefined"
           /\ (pos > Len(hrp) /\ lowerOf(chr) \notin Alphabet \cup {SEPARATOR})
                  => (res.kind = "throw" /\ res.err = "not in charset")
           /\ (pos = Len(hrp) /\ LowercaseLetters(hrp))
                  => (res.kind = "throw" /\ res.err = "no separator")

\* the last character of an encoded string replaced by another character of
\* the alphabet
C3_Witness ==
    /\ made = "substitute" /\ call = "decode" /\ LowercaseLetters(hrp)
    /\ TypoNotCaseOnly
    /\ pos = Len(text) - 1 /\ chr \in Alphabet /\ Len(data) = 2
    /\ res.kind = "undefined"

(***************************************************************************)
(* C4  Precedence of the structural errors of decode, all on the           *)
(* lower-cased text and whatever the checksum is: no '1' in the text, the  *)
(* missing-separator error; else the last '1' at index 0, the              *)
(* separator-too-early error; else fewer than 6 characters after the last  *)
(* '1', the not-enough-space error; else some character after the last '1' *)
(* outside the alphabet, the invalid-character error.  Each is thrown (no  *)
(* result, no undefined, no 5 -> 8 conversion), and a text passing the     *)
(* four tests gets none of these errors.                                   *)
(***************************************************************************)
StructuralErrors ==
    {"no separator", "separator too early", "not enough space", "not in charset"}

C4_StructuralPrecedence ==
    call = "decode" =>
        LET seps == SeparatorPositions(text)
        IN  /\ seps = {} => res = Thrown("no separator", FALSE)
            /\ (seps # {} /\ LastSeparator(text) = 0)
                   => res = Thrown("separator too early", FALSE)
            /\ (seps # {} /\ LastSeparator(text) >= 1
                /\ Len(text) - LastSeparator(text) - 1 < 6)
                   => res = Thrown("not enough space", FALSE)
            /\ (seps # {} /\ LastSeparator(text) >= 1
                /\ Len(text) - LastSeparator(text) - 1 >= 6
                /\ \E n \in (LastSeparator(text) + 1)..(Len(text) - 1) :
                       lowerOf(text[n + 1]) \notin Alphabet)
                   => res = Thrown("not in charset", FALSE)
            /\ PassesStructure(text) => res.err \notin StructuralErrors

\* a typed text with a separator at index 0 as its last one and too few
\* characters after it: the first condition that holds decides
C4_Witness ==
    /\ made = "type" /\ call = "decode"
    /\ SeparatorPositions(text) # {} /\ LastSeparator(text) = 0
    /\ Len(text) - 1 < 6
    /\ \E n \in 1..(Len(text) - 1) : lowerOf(text[n + 1]) \notin Alphabet
    /\ res = Thrown("separator too early", FALSE)

(***************************************************************************)
(* C5  Decoding ignores letter case: after the case of letters of an       *)
(* encoded string is changed (all of them, or some), decode succeeds and   *)
(* returns the prefix in lower case and the payload, as for the string     *)
(* itself.                                                                 *)
(***************************************************************************)
C5_CaseInsensitiveDecode ==
    (made = "changeCase" /\ call = "decode")
        => /\ res.kind = "ok"
           /\ res.humanReadablePart = hrp
           /\ res.data = data
           /\ res = decode(encode(hrp, data))

\* every letter of the string in upper case
C5_Witness ==
    /\ made = "changeCase" /\ call = "decode"
    /\ LowercaseLetters(hrp) /\ Len(data) = 2
    /\ \A n \in 1..Len(text) : text[n] \notin 97..122
    /\ res.kind = "ok" /\ res.humanReadablePart = hrp /\ res.data = data

(***************************************************************************)
(* C6  Round trip of a typed address: fromBech32 of toBech32(t, a, hrp)    *)
(* with the same prefix returns exactly the type t and the bytes a; the    *)
(* type is the first byte of the payload and the address bytes follow it   *)
(* unchanged.                                                              *)
(***************************************************************************)
C6_TypedAddressRoundTrip ==
    /\ (made = "toBech32" /\ call = "fromBech32" /\ arg = hrp)
           => res = AddressOk(addressType, data)
    /\ (made = "toBech32" /\ call = "decode")
           => (res.kind = "ok" /\ res.data = << addressType >> \o data)

C6_Witness ==
    /\ made = "toBech32" /\ call = "fromBech32" /\ arg = hrp
    /\ addressType = 255 /\ data = << 0, 255 >>
    /\ res = AddressOk(255, << 0, 255 >>)

(***************************************************************************)
(* C7  Order of the outcomes of fromBech32(text, expected): undefined when *)
(* decode(text) is undefined, whatever the expected prefix; else the       *)
(* prefix-mismatch error when the decoded prefix is not the expected one,  *)
(* also when the payload is empty; else the empty-payload error when the   *)
(* payload is empty; else the first byte as the type and the rest as the   *)
(* address bytes.                                                          *)
(***************************************************************************)
C7_OutcomeOrder ==
    call = "fromBech32" =>
        LET decoded == decode(text)
        IN  /\ decoded.kind = "undefined" => res = AddressUndefined
            /\ (decoded.kind = "ok" /\ decoded.humanReadablePart # arg)
                   => res = AddressThrown("hrp mismatch")
            /\ (decoded.kind = "ok" /\ decoded.humanReadablePart = arg
                /\ Len(decoded.data) = 0)
                   => res = AddressThrown("data length 0")
            /\ (decoded.kind = "ok" /\ decoded.humanReadablePart = arg
                /\ Len(decoded.data) > 0)
                   => res = AddressOk(decoded.data[1],
                                      SubSeq(decoded.data, 2, Len(decoded.data)))

\* an encoded string with an empty payload read with another prefix
C7_Witness ==
    /\ made = "encode" /\ call = "fromBech32"
    /\ data = << >> /\ arg # hrp
    /\ res = AddressThrown("hrp mismatch")

(***************************************************************************)
(* C8  matches(hrp, encode(hrp, b)) is true for every prefix of lowercase  *)
(* letters and every payload, the empty payload included.                  *)
(***************************************************************************)
C8_EncodedTextMatches ==
    (made = "encode" /\ call = "matches" /\ arg = hrp /\ LowercaseLetters(hrp))
        => res.value = TRUE

\* the empty payload: only the six checksum characters follow the separator
C8_Witness ==
    /\ made = "encode" /\ call = "matches" /\ arg = hrp /\ LowercaseLetters(hrp)
    /\ data = << >> /\ Len(text) = Len(hrp) + 1 + 6
    /\ res.value = TRUE

(***************************************************************************)
(* C9  Layout of encode(hrp, b) for a payload of n bytes: the prefix, one  *)
(* '1', ceil(8n/5) payload characters, 6 checksum characters; every        *)
(* character after the separator is a character of the alphabet (none is   *)
(* '1', none is upper case); the i-th payload character is the alphabet    *)
(* character of the i-th group of five bits of b, most significant bit     *)
(* first, the last group filled with zero bits.                            *)
(***************************************************************************)
\* bit k (0-based, most significant first) of the bytes, 0 past their end
bitOf(bytes, k) ==
    IF k < 8 * Len(bytes)
    THEN (bytes[(k \div 8) + 1] \div Pow2(7 - (k % 8))) % 2
    ELSE 0

\* the i-th (0-based) group of five bits of the bytes
groupOfFive(bytes, i) ==
    16 * bitOf(bytes, 5 * i) + 8 * bitOf(bytes, 5 * i + 1)
    + 4 * bitOf(bytes, 5 * i + 2) + 2 * bitOf(bytes, 5 * i + 3)
    + bitOf(bytes, 5 * i + 4)

\* ceil(8n/5)
payloadSymbols(n) == (8 * n + 4) \div 5

C9_WireLayout ==
    made = "encode" =>
        LET wire == encode(hrp, data)
            k    == payloadSymbols(Len(data))
        IN  /\ Len(wire) = Len(hrp) + 1 + k + 6
            /\ SubSeq(wire, 1, Len(hrp)) = hrp
            /\ wire[Len(hrp) + 1] = 49
            /\ \A n \in (Len(hrp) + 2)..Len(wire) :
                   /\ wire[n] \in Alphabet
                   /\ wire[n] # 49
                   /\ wire[n] \notin 65..90
            /\ \A i \in 0..(k - 1) :
                   wire[Len(hrp) + 2 + i] = CHARSET[groupOfFive(data, i) + 1]
            /\ text = wire

\* a payload whose last group of five bits is filled with zero bits
C9_Witness ==
    /\ made = "encode" /\ call = "none"
    /\ data = << 255, 255 >>
    /\ Len(text) = Len(hrp) + 1 + 4 + 6
    /\ text[Len(hrp) + 5] = CHARSET[16 + 1]

(***************************************************************************)
(* C10  The separator is searched from the right: for a prefix containing  *)
(* '1', decoding the encoded string splits at its last '1', which is the   *)
(* one written after the prefix, and returns the whole prefix and the      *)
(* payload; no character after that separator is '1'.                      *)
(***************************************************************************)
C10_SeparatorFromTheRight ==
    (made = "encode" /\ \E n \in 1..Len(hrp) : hrp[n] = 49)
        => /\ LastSeparator(encode(hrp, data)) = Len(hrp)
           /\ call = "decode"
                  => /\ res.kind = "ok"
                     /\ res.humanReadablePart = hrp
                     /\ res.data = data

\* a prefix that begins with '1'
C10_Witness ==
    /\ made = "encode" /\ call = "decode"
    /\ Len(hrp) = 2 /\ hrp[1] = 49 /\ Len(data) = 2
    /\ res.kind = "ok" /\ res.humanReadablePart = hrp /\ res.data = data

(***************************************************************************)
(* C11  Padding on decode: the string encode5BitArray builds from m        *)
(* symbols has a checksum that verifies; decoding it throws the            *)
(* excess-padding error when (5m) mod 8 >= 5, else the non-zero-padding    *)
(* error when one of the last (5m) mod 8 bits of the symbols is set, else  *)
(* returns the prefix and floor(5m/8) bytes, the leading bits of the       *)
(* symbols.  It is never undefined, and bad padding never gives a payload. *)
(***************************************************************************)
\* bit k (0-based, most significant first) of a sequence of 5-bit symbols
symbolBit(symbols, k) == (symbols[(k \div 5) + 1] \div Pow2(4 - (k % 5))) % 2

\* the number of bits left over by m symbols
residualBits(m) == (5 * m) % 8

\* one of the left-over bits at the end of the symbols is set
paddingSet(symbols) ==
    \E k \in (5 * Len(symbols) - residualBits(Len(symbols)))..(5 * Len(symbols) - 1) :
        symbolBit(symbols, k) = 1

\* the j-th (0-based) byte of the bit stream of the symbols
leadingByte(symbols, j) ==
    128 * symbolBit(symbols, 8 * j) + 64 * symbolBit(symbols, 8 * j + 1)
    + 32 * symbolBit(symbols, 8 * j + 2) + 16 * symbolBit(symbols, 8 * j + 3)
    + 8 * symbolBit(symbols, 8 * j + 4) + 4 * symbolBit(symbols, 8 * j + 5)
    + 2 * symbolBit(symbols, 8 * j + 6) + symbolBit(symbols, 8 * j + 7)

leadingBytes(symbols) ==
    [j \in 1..((5 * Len(symbols)) \div 8) |-> leadingByte(symbols, j - 1)]

C11_PaddingRejection ==
    (made = "encode5BitArray" /\ call = "decode")
        => /\ PassesStructure(text) /\ ChecksumVerifies(text)
           /\ res.kind # "undefined"
           /\ residualBits(Len(data)) >= 5
                  => res = Thrown("Excess padding", TRUE)
           /\ (residualBits(Len(data)) < 5 /\ paddingSet(data))
                  => res = Thrown("Non-zero padding", TRUE)
           /\ (residualBits(Len(data)) < 5 /\ ~paddingSet(data))
                  => res = Ok(hrp, leadingBytes(data), TRUE)

\* six symbols leave six bits: too many, whatever they are
C11_Witness ==
    /\ made = "encode5BitArray" /\ call = "decode"
    /\ Len(data) = 6 /\ ~paddingSet(data)
    /\ res = Thrown("Excess padding", TRUE)

\* seven symbols leave three bits, one of them set
C11_WitnessNonZero ==
    /\ made = "encode5BitArray" /\ call = "decode"
    /\ Len(data) = 7 /\ data[7] = 1
    /\ res = Thrown("Non-zero padding", TRUE)

(***************************************************************************)
(* C12  Width of the checksum: after every iteration of polymod on values  *)
(* in 0..255 the accumulator chk is a non-negative integer below 2^30, so  *)
(* top = chk >> 25 is in 0..31 and the shift by 5 of the masked chk loses  *)
(* nothing in 32 bits; the six symbols of createChecksum are each in 0..31 *)
(* and, most significant first, are the base-32 digits of polymod(...)     *)
(* XOR 1.                                                                  *)
(***************************************************************************)
\* the values createChecksum hands to polymod for the text encode built
checksumInput ==
    humanReadablePartExpand(hrp) \o to5Bit(data) \o << 0, 0, 0, 0, 0, 0 >>

\* the number whose base-32 digits, most significant first, are the symbols
fromBase32(symbols) ==
    LET loop[i \in 0..Len(symbols), acc \in Nat] ==
            IF i < Len(symbols) THEN loop[i + 1, 32 * acc + symbols[i + 1]]
            ELSE acc
    IN  loop[0, 0]

C12_PolymodWidth ==
    /\ made = "polymod"
           => /\ chk \in 0..(Pow2(30) - 1)
              /\ Shr(chk, 25) \in 0..31
              /\ Shl(BitAnd(chk, 33554431), 5) = 32 * (chk % 33554432)
              /\ p = Len(values)
              /\ chk = polymod(values)
    /\ made = "encode"
           => LET checksum == createChecksum(hrp, to5Bit(data))
              IN  /\ Len(checksum) = 6
                  /\ \A i \in 1..6 : checksum[i] \in 0..31
                  /\ polymod(checksumInput) \in 0..(Pow2(30) - 1)
                  /\ fromBase32(checksum) = BitXor(polymod(checksumInput), 1)

\* an accumulator with its highest bit (bit 29) set, after passes where top
\* was not 0
C12_Witness ==
    /\ made = "polymod" /\ p = 7
    /\ values[7] = 255
    /\ chk >= Pow2(29) /\ chk < Pow2(30)
    /\ Shr(polymod(SubSeq(values, 1, 6)), 25) > 0

(***************************************************************************)
(* C13  Canonical form: whenever decode returns a result for a text,       *)
(* encoding the returned prefix and payload gives back the text in lower   *)
(* case, so the text itself when it has no upper-case letter: an accepted  *)
(* text differs from its canonical encoding by letter case at most.        *)
(***************************************************************************)
\* str with its letters in lower case
lowered(str) == [n \in 1..Len(str) |-> lowerOf(str[n])]

C13_CanonicalForm ==
    (call = "decode" /\ res.kind = "ok")
        => /\ encode(res.humanReadablePart, res.data) = lowered(text)
           /\ (\A n \in 1..Len(text) : text[n] \notin 65..90)
                  => encode(res.humanReadablePart, res.data) = text

\* a text built from seven symbols, not by encode, that decode accepts
C13_Witness ==
    /\ made = "encode5BitArray" /\ call = "decode"
    /\ Len(data) = 7 /\ data[7] = 16 /\ data[1] = 1
    /\ res.kind = "ok" /\ Len(res.data) = 4
    /\ encode(res.humanReadablePart, res.data) = text
====
